---- MODULE Spec2Model ----
(***************************************************************************)
(* A model of the discord-intl message front end: the byte classifier,     *)
(* the escaping and flattening utilities, the variable extraction visitor, *)
(* the variable catalog and the message value.                             *)
(*                                                                         *)
(* Strings are sequences of byte values (unescape) or of Unicode scalar    *)
(* values (escape_href); the AST is a tree of records.                     *)
(***************************************************************************)
EXTENDS Integers, Sequences, FiniteSets, TLC

VARIABLES
    lookup,      \* the last byte classifier call: [op, byte, index, len, result]
    unesc,       \* the last unescape call: [text, out, again]
    href,        \* the last escape_href call: [text, out]
    elements,    \* the inline sequence under construction (Vec<InlineContent>)
    blocks,      \* the blocks of the Document under construction
    plain,       \* the last format_plain_text call: [called, panicked, buffer]
    visited,     \* the last visitor run: [called, failAt, ok, variables]
    value,       \* the last MessageValue::from_raw: a MessageValue or NoValue
    valA, valB,  \* two MessageValue values, compared by eq
    eqResult,    \* the last result of PartialEq::eq(valA, valB)
    self,        \* a MessageVariables catalog
    other,       \* another catalog, merged into self
    merged,      \* the run of merges in progress: [times, base, arg]
    body,        \* the last escape_body_text call: [called, text, out]
    hashed,      \* the last hash_message_key call: [called, input, indices, output]
    hist         \* what was done to self and other since MessageVariables::new()

vars == <<lookup, unesc, href, elements, blocks, plain, visited, value,
          valA, valB, eqResult, self, other, merged, body, hashed, hist>>

(***************************************************************************)
(* Option<T>.                                                              *)
(***************************************************************************)
None == [some |-> FALSE]
Some(v) == [some |-> TRUE, v |-> v]

Range(s) == {s[i] : i \in 1..Len(s)}

(***************************************************************************)
(* Byte classifier (byte_lookup.rs).                                       *)
(*                                                                         *)
(* A Rust slice index panics outside the table: TableGet reports that as   *)
(* `panicked` instead of yielding a value.                                 *)
(***************************************************************************)
TableGet(table, index) ==
    [panicked |-> ~(index < Len(table)),
     v        |-> IF index < Len(table) THEN table[index + 1] ELSE 0]

\* b"\t\n\x0C\r !\"$&'()*:<>[\\]_`{}~" without its last byte.
TOKEN_SIGNIFICANT_BYTES_literal_truncated ==
    <<9, 10, 12, 13, 32, 33, 34, 36, 38, 39, 40, 41, 42, 58, 60, 62,
      91, 92, 93, 95, 96, 123, 125>>

\* The byte string handed to generate_ascii_lookup_table!:
\* b"\t\n\x0C\r !\"$&'()*:<>[\\]_`{}~"
TOKEN_SIGNIFICANT_BYTES_literal ==
    <<9, 10, 12, 13, 32, 33, 34, 36, 38, 39, 40, 41, 42, 58, 60, 62,
      91, 92, 93, 95, 96, 123, 125, 126>>

\* The macro's expansion: one entry per byte value, 1 for the listed bytes.
generate_ascii_lookup_table(bytes) ==
    [i \in 1..256 |-> IF (i - 1) \in Range(bytes) THEN 1 ELSE 0]

TOKEN_SIGNIFICANT_BYTES ==
    generate_ascii_lookup_table(TOKEN_SIGNIFICANT_BYTES_literal)

\* TOKEN_SIGNIFICANT_BYTES[byte as usize] != 0
byte_is_significant(byte) ==
    LET got == TableGet(TOKEN_SIGNIFICANT_BYTES, byte)
    IN  [index |-> byte, panicked |-> got.panicked,
         significant |-> (~got.panicked /\ got.v # 0), length |-> 0]

UTF8_LENGTH_LOOKUP ==
    <<1, 1, 1, 1, 1, 1, 1, 1, 1, 1, 1, 1, 1, 1, 1, 1,
      0, 0, 0, 0, 0, 0, 0, 0, 2, 2, 2, 2, 3, 3, 4, 0>>

\* The lookup with the shift two bits short.
char_length_from_byte_short_shift(byte) ==
    LET got == TableGet(UTF8_LENGTH_LOOKUP, byte \div 2)
    IN  [index |-> byte \div 2, panicked |-> got.panicked,
         significant |-> FALSE, length |-> got.v]

\* UTF8_LENGTH_LOOKUP[byte as usize >> 3]
char_length_from_byte(byte) ==
    LET got == TableGet(UTF8_LENGTH_LOOKUP, byte \div 8)
    IN  [index |-> byte \div 8, panicked |-> got.panicked,
         significant |-> FALSE, length |-> got.v]

\* u8
U8 == 0..255

IdleLookup ==
    [op |-> "none", byte |-> 0, index |-> 0, panicked |-> FALSE,
     significant |-> FALSE, length |-> 0]

ByteIsSignificant ==
    /\ \E b \in U8 :
         lookup' = [op |-> "byte_is_significant", byte |-> b]
                     @@ byte_is_significant(b)
    /\ UNCHANGED <<unesc, href, elements, blocks, plain, visited, value,
                   valA, valB, eqResult, self, other, merged, body, hashed, hist,
                   body, hashed, hist>>

CharLengthFromByte ==
    /\ \E b \in U8 :
         lookup' = [op |-> "char_length_from_byte", byte |-> b]
                     @@ char_length_from_byte(b)
    /\ UNCHANGED <<unesc, href, elements, blocks, plain, visited, value,
                   valA, valB, eqResult, self, other, merged, body, hashed, hist,
                   body, hashed, hist>>


(***************************************************************************)
(* Bounded strings.                                                        *)
(***************************************************************************)
SeqsUpTo(S, n) == UNION {[1..k -> S] : k \in 0..n}

\* text[from..to] with Rust's zero-based, half-open bounds.
Slice(text, from, to) == SubSeq(text, from + 1, to)

(***************************************************************************)
(* unescape (ast/util.rs).  A text is the sequence of its bytes.           *)
(***************************************************************************)
\* u8::is_ascii_punctuation
is_ascii_punctuation(byte) ==
    \/ byte \in 33..47
    \/ byte \in 58..64
    \/ byte \in 91..96
    \/ byte \in 123..126

\* The escape arm with only the loop's own increment: the escaped byte is
\* examined again.
index_after_escape_rescanning(index) == index + 1

\* The escape arm's `index += 1` followed by the loop's `index += 1`.
index_after_escape(index) == (index + 1) + 1

RECURSIVE unescape_loop(_, _, _, _)
unescape_loop(text, index, plaintext_start, result) ==
    IF ~(index < Len(text))
    THEN result \o Slice(text, plaintext_start, index)
    ELSE LET byte == text[index + 1]
         IN  IF /\ byte = 92
                /\ index + 1 < Len(text)
                /\ is_ascii_punctuation(text[index + 2])
             THEN unescape_loop(text, index_after_escape(index), index + 1,
                                result \o Slice(text, plaintext_start, index))
             ELSE IF byte = 13
             THEN unescape_loop(text, index + 1, index + 1,
                                result \o Slice(text, plaintext_start, index))
             ELSE unescape_loop(text, index + 1, plaintext_start, result)

unescape(text) == unescape_loop(text, 0, 0, <<>>)

MaxUnescapeLen == 3

\* backslash, bang, carriage return, 'a', newline
UnescapeBytes == {92, 33, 13, 97, 10}

UnescapeTexts == SeqsUpTo(UnescapeBytes, MaxUnescapeLen)

IdleUnesc == [passes |-> 0, text |-> <<>>, prev |-> <<>>, out |-> <<>>]

\* unescape(text)
Unescape ==
    /\ \E text \in UnescapeTexts :
         unesc' = [passes |-> 1, text |-> text, prev |-> text,
                   out |-> unescape(text)]
    /\ UNCHANGED <<lookup, href, elements, blocks, plain, visited, value,
                   valA, valB, eqResult, self, other, merged, body, hashed, hist,
                   body, hashed, hist>>

\* unescape applied to its own result
UnescapeAgain ==
    /\ unesc.passes = 1
    /\ unesc' = [passes |-> 2, text |-> unesc.text, prev |-> unesc.out,
                 out |-> unescape(unesc.out)]
    /\ UNCHANGED <<lookup, href, elements, blocks, plain, visited, value,
                   valA, valB, eqResult, self, other, merged, body, hashed, hist,
                   body, hashed, hist>>


(***************************************************************************)
(* escape_href (ast/util.rs).  A text is the sequence of its chars         *)
(* (Unicode scalar values); as_bytes is its UTF-8 encoding.                *)
(***************************************************************************)
HREF_SAFE ==
    <<0, 0, 0, 0, 0, 0, 0, 0, 0, 0, 0, 0, 0, 0, 0, 0,
      0, 0, 0, 0, 0, 0, 0, 0, 0, 0, 0, 0, 0, 0, 0, 0,
      0, 1, 0, 1, 1, 1, 0, 0, 1, 1, 1, 1, 1, 1, 1, 1,
      1, 1, 1, 1, 1, 1, 1, 1, 1, 1, 1, 1, 0, 1, 0, 1,
      1, 1, 1, 1, 1, 1, 1, 1, 1, 1, 1, 1, 1, 1, 1, 1,
      1, 1, 1, 1, 1, 1, 1, 1, 1, 1, 1, 0, 0, 0, 1, 1,
      0, 1, 1, 1, 1, 1, 1, 1, 1, 1, 1, 1, 1, 1, 1, 1,
      1, 1, 1, 1, 1, 1, 1, 1, 1, 1, 1, 0, 0, 0, 1, 0>>

\* char::is_ascii
is_ascii(c) == c < 128

\* char::len_utf8
len_utf8(c) ==
    IF c < 128 THEN 1 ELSE IF c < 2048 THEN 2 ELSE IF c < 65536 THEN 3 ELSE 4

\* The UTF-8 encoding of one char.
utf8_bytes(c) ==
    IF c < 128 THEN <<c>>
    ELSE IF c < 2048 THEN <<192 + (c \div 64), 128 + (c % 64)>>
    ELSE IF c < 65536
    THEN <<224 + (c \div 4096), 128 + ((c \div 64) % 64), 128 + (c % 64)>>
    ELSE <<240 + (c \div 262144), 128 + ((c \div 4096) % 64),
           128 + ((c \div 64) % 64), 128 + (c % 64)>>

\* str::as_bytes
RECURSIVE as_bytes(_)
as_bytes(text) ==
    IF text = <<>> THEN <<>> ELSE utf8_bytes(Head(text)) \o as_bytes(Tail(text))

\* str::char_indices: the byte offset of the k-th char.
RECURSIVE char_index(_, _)
char_index(text, k) ==
    IF k = 1 THEN 0 ELSE char_index(text, k - 1) + len_utf8(text[k - 1])

\* One uppercase hexadecimal digit, as a char.
hex_digit(d) == IF d < 10 THEN 48 + d ELSE 55 + d

\* format!("{:X}", byte): uppercase hexadecimal, no padding.
format_upper_hex(byte) ==
    IF byte < 16 THEN <<hex_digit(byte)>>
    ELSE <<hex_digit(byte \div 16), hex_digit(byte % 16)>>

\* The inner `for byte_index in index..index + c.len_utf8()` loop.
RECURSIVE percent_encode(_, _, _)
percent_encode(bytes, byte_index, end) ==
    IF ~(byte_index < end) THEN <<>>
    ELSE <<37>> \o format_upper_hex(bytes[byte_index + 1])
              \o percent_encode(bytes, byte_index + 1, end)

\* "&amp;"
AMP_ENTITY == <<38, 97, 109, 112, 59>>

\* The body of the `for (index, c) in text.char_indices()` loop.
escape_href_char(text, index, c) ==
    IF ~is_ascii(c) \/ HREF_SAFE[c + 1] = 0
    THEN IF c = 38 THEN AMP_ENTITY
         ELSE percent_encode(as_bytes(text), index, index + len_utf8(c))
    ELSE <<c>>

RECURSIVE escape_href_from(_, _)
escape_href_from(text, k) ==
    IF k > Len(text) THEN <<>>
    ELSE escape_href_char(text, char_index(text, k), text[k])
           \o escape_href_from(text, k + 1)

escape_href(text) == escape_href_from(text, 1)

MaxHrefLen == 2

\* tab, '&', 'a', '~', U+00E9, U+20AC, U+1F600
HrefChars == {9, 38, 97, 126, 233, 8364, 128512}

\* Every one-char ASCII text, and the short texts over HrefChars.
HrefTexts == {<<c>> : c \in 0..127} \cup SeqsUpTo(HrefChars, MaxHrefLen)

IdleHref == [called |-> FALSE, text |-> <<>>, out |-> <<>>]

\* escape_href(text)
EscapeHref ==
    /\ \E text \in HrefTexts :
         href' = [called |-> TRUE, text |-> text, out |-> escape_href(text)]
    /\ UNCHANGED <<lookup, unesc, elements, blocks, plain, visited, value,
                   valA, valB, eqResult, self, other, merged, body, hashed, hist,
                   body, hashed, hist>>


(***************************************************************************)
(* The AST (spec section 3): InlineContent, Icu, TextOrPlaceholder and     *)
(* BlockNode values as records tagged by `kind`.                           *)
(***************************************************************************)
Text(text)            == [kind |-> "Text", text |-> text]
CodeSpan(content)     == [kind |-> "CodeSpan", text |-> content]
HardLineBreak         == [kind |-> "HardLineBreak"]
IcuPound              == [kind |-> "IcuPound"]
Emphasis(content)     == [kind |-> "Emphasis", content |-> content]
Strong(content)       == [kind |-> "Strong", content |-> content]
Strikethrough(content) == [kind |-> "Strikethrough", content |-> content]
Hook(name, content)   == [kind |-> "Hook", name |-> name, content |-> content]
Link(label, destination) ==
    [kind |-> "Link", label |-> label, destination |-> destination]
Icu(icu)              == [kind |-> "Icu", icu |-> icu]

IcuVariable(name)     == [kind |-> "IcuVariable", name |-> name]
IcuDate(name)         == [kind |-> "IcuDate", name |-> name]
IcuTime(name)         == [kind |-> "IcuTime", name |-> name]
IcuNumber(name)       == [kind |-> "IcuNumber", name |-> name]
IcuPlural(name, arms) == [kind |-> "IcuPlural", name |-> name, arms |-> arms]
IcuPluralArm(selector, content) == [selector |-> selector, content |-> content]

DestinationText(text)       == [kind |-> "Text", text |-> text]
DestinationPlaceholder(icu) == [kind |-> "Placeholder", icu |-> icu]

InlineContentBlock(content) == [kind |-> "InlineContent", content |-> content]
Paragraph(content)    == [kind |-> "Paragraph", content |-> content]
Heading(level, content) ==
    [kind |-> "Heading", level |-> level, content |-> content]
CodeBlock             == [kind |-> "CodeBlock"]
ThematicBreak         == [kind |-> "ThematicBreak"]

ContainerKinds == {"Emphasis", "Strong", "Strikethrough", "Hook"}

\* Variable and hook names of the bounded documents.
IcuNames  == {"n"}
HookNames == {"n", "b"}

\* Heading levels are 1..6; the bounded documents use the first and the last.
HeadingLevels == {1, 6}

InlineLeaves ==
    {Text("a"), CodeSpan("c"), HardLineBreak, IcuPound}
      \cup {Icu(IcuVariable(n)) : n \in IcuNames}
      \cup {Icu(IcuDate(n)) : n \in IcuNames}
      \cup {Icu(IcuTime(n)) : n \in IcuNames}
      \cup {Icu(IcuNumber(n)) : n \in IcuNames}

LinkDestinations ==
    {DestinationText("u")}
      \cup {DestinationPlaceholder(IcuVariable(n)) : n \in IcuNames}

\* The containers an inline sequence can be wrapped in.
Wrappers(content) ==
    {Emphasis(content), Strong(content), Strikethrough(content)}
      \cup {Hook(n, content) : n \in HookNames}
      \cup {Link(content, d) : d \in LinkDestinations}
      \cup {Icu(IcuPlural(n, <<IcuPluralArm("other", content)>>)) : n \in IcuNames}

BlockWrappers(content) ==
    {InlineContentBlock(content), Paragraph(content)}
      \cup {Heading(l, content) : l \in HeadingLevels}

EmptyBlocks == {CodeBlock, ThematicBreak}

IsPlural(node) == node.kind = "Icu" /\ node.icu.kind = "IcuPlural"

\* The number of nodes (inline nodes, plural arms, blocks) of a tree.
RECURSIVE NodeCount(_)
SeqNodeCount(nodes) ==
    LET RECURSIVE Sum(_)
        Sum(k) == IF k = 0 THEN 0 ELSE NodeCount(nodes[k]) + Sum(k - 1)
    IN  Sum(Len(nodes))
NodeCount(node) ==
    IF "kind" \notin DOMAIN node THEN 1 + SeqNodeCount(node.content)
    ELSE IF node.kind \in ContainerKinds \cup {"InlineContent", "Paragraph", "Heading"}
    THEN 1 + SeqNodeCount(node.content)
    ELSE IF node.kind = "Link" THEN 1 + SeqNodeCount(node.label)
    ELSE IF IsPlural(node) THEN SeqNodeCount(node.icu.arms)
    ELSE 1

MaxNodes == 3

Size == SeqNodeCount(blocks) + SeqNodeCount(elements)

Building == ~plain.called /\ ~visited.called

\* The parser appends a leaf to the inline sequence it is assembling.
PushLeaf ==
    /\ Building
    /\ Size < MaxNodes
    /\ \E leaf \in InlineLeaves : elements' = Append(elements, leaf)
    /\ UNCHANGED <<lookup, unesc, href, blocks, plain, visited, value,
                   valA, valB, eqResult, self, other, merged, body, hashed, hist,
                   body, hashed, hist>>

\* The parser closes a delimiter run, link, hook or plural arm: the last k
\* nodes become the content of a new container.
WrapTail ==
    /\ Building
    /\ Size < MaxNodes
    /\ \E k \in 0..Len(elements) :
         LET n    == Len(elements)
             head == SubSeq(elements, 1, n - k)
             tail == SubSeq(elements, n - k + 1, n)
         IN  \E node \in Wrappers(tail) : elements' = Append(head, node)
    /\ UNCHANGED <<lookup, unesc, href, blocks, plain, visited, value,
                   valA, valB, eqResult, self, other, merged, body, hashed, hist,
                   body, hashed, hist>>

\* The parser closes a further arm of the plural that precedes the last k
\* nodes.
AddArm ==
    /\ Building
    /\ Size < MaxNodes
    /\ \E k \in 0..(Len(elements) - 1) :
         LET n      == Len(elements)
             tail   == SubSeq(elements, n - k + 1, n)
             plural == elements[n - k]
         IN  /\ IsPlural(plural)
             /\ elements' =
                  Append(SubSeq(elements, 1, n - k - 1),
                         Icu(IcuPlural(plural.icu.name,
                                       Append(plural.icu.arms,
                                              IcuPluralArm("one", tail)))))
    /\ UNCHANGED <<lookup, unesc, href, blocks, plain, visited, value,
                   valA, valB, eqResult, self, other, merged, body, hashed, hist,
                   body, hashed, hist>>

\* The parser closes a block over the inline sequence assembled so far.
FinishBlock ==
    /\ Building
    /\ Size < MaxNodes
    /\ \E block \in BlockWrappers(elements) : blocks' = Append(blocks, block)
    /\ elements' = <<>>
    /\ UNCHANGED <<lookup, unesc, href, plain, visited, value,
                   valA, valB, eqResult, self, other, merged, body, hashed, hist,
                   body, hashed, hist>>

\* The parser emits a block without inline content.
PushBlock ==
    /\ Building
    /\ Size < MaxNodes
    /\ elements = <<>>
    /\ \E block \in EmptyBlocks : blocks' = Append(blocks, block)
    /\ UNCHANGED <<lookup, unesc, href, elements, plain, visited, value,
                   valA, valB, eqResult, self, other, merged, body, hashed, hist,
                   body, hashed, hist>>

(***************************************************************************)
(* format_plain_text (ast/util.rs).  todo!() panics: the call unwinds and  *)
(* no String is returned.                                                  *)
(***************************************************************************)
\* The Icu arm dropping the node instead of todo!().
format_icu_dropping(st) == st

\* InlineContent::Icu(_) => todo!()
format_icu(st) == [st EXCEPT !.panicked = TRUE]

RECURSIVE format_plain_text_inner(_, _)
format_element(st, element) ==
    IF st.panicked THEN st
    ELSE CASE element.kind = "Text" ->
                [st EXCEPT !.buffer = @ \o <<element.text>>]
           [] element.kind = "Strong" ->
                format_plain_text_inner(st, element.content)
           [] element.kind = "Emphasis" ->
                format_plain_text_inner(st, element.content)
           [] element.kind = "Link" ->
                format_plain_text_inner(st, element.label)
           [] element.kind = "CodeSpan" ->
                [st EXCEPT !.buffer = @ \o <<element.text>>]
           [] element.kind = "HardLineBreak" -> st
           [] element.kind = "Hook" ->
                format_plain_text_inner(st, element.content)
           [] element.kind = "Strikethrough" ->
                format_plain_text_inner(st, element.content)
           [] element.kind = "Icu" -> format_icu(st)
           [] element.kind = "IcuPound" -> [st EXCEPT !.buffer = @ \o <<"#">>]

format_plain_text_inner(st, elems) ==
    IF elems = <<>> THEN st
    ELSE format_plain_text_inner(format_element(st, Head(elems)), Tail(elems))

\* The returned String, as the sequence of the pieces pushed; nothing is
\* returned when the call panicked.
format_plain_text(elems) ==
    LET st == format_plain_text_inner([panicked |-> FALSE, buffer |-> <<>>], elems)
    IN  [called |-> TRUE, panicked |-> st.panicked,
         buffer |-> IF st.panicked THEN <<>> ELSE st.buffer]

IdlePlain == [called |-> FALSE, panicked |-> FALSE, buffer |-> <<>>]

\* format_plain_text(&elements)
FormatPlainText ==
    /\ Building
    /\ plain' = format_plain_text(elements)
    /\ UNCHANGED <<lookup, unesc, href, elements, blocks, visited, value,
                   valA, valB, eqResult, self, other, merged, body, hashed, hist,
                   body, hashed, hist>>


(***************************************************************************)
(* MessageVariables (message_variables_visitor.rs): a map from a name to   *)
(* the list of its instances.                                              *)
(***************************************************************************)
MessageVariableInstance(kind, span) == [kind |-> kind, span |-> span]

\* MessageVariables::new()
MessageVariables_new == [name \in {} |-> <<>>]

\* add_instance keeping one instance per name.
add_instance_deduplicating(variables, name, kind, span) ==
    IF name \in DOMAIN variables THEN variables
    ELSE variables @@ (name :> <<MessageVariableInstance(kind, span)>>)

\* add_instance as self.variables.insert(name, vec![instance]): the earlier
\* instances of the name are lost.
add_instance_replacing(variables, name, kind, span) ==
    IF name \in DOMAIN variables
    THEN [variables EXCEPT ![name] = <<MessageVariableInstance(kind, span)>>]
    ELSE variables @@ (name :> <<MessageVariableInstance(kind, span)>>)

\* self.variables.entry(name).or_insert_with(|| vec![]).push(instance)
add_instance(variables, name, kind, span) ==
    IF name \in DOMAIN variables
    THEN [variables EXCEPT ![name] = Append(@, MessageVariableInstance(kind, span))]
    ELSE variables @@ (name :> <<MessageVariableInstance(kind, span)>>)

\* One step of merge's loop with or_insert alone: an existing list is kept.
merge_entry_keeping_existing(variables, symbol, instances) ==
    IF symbol \in DOMAIN variables THEN variables
    ELSE variables @@ (symbol :> instances)

\* One step of merge's loop:
\* entry(*symbol).and_modify(|existing| existing.extend(instances.clone()))
\*               .or_insert(instances.clone())
merge_entry(variables, symbol, instances) ==
    IF symbol \in DOMAIN variables
    THEN [variables EXCEPT ![symbol] = @ \o instances]
    ELSE variables @@ (symbol :> instances)

\* merge(&mut self, other), with other.iter() yielding its keys in `order`.
RECURSIVE merge(_, _, _)
merge(variables, from, order) ==
    IF order = <<>> THEN variables
    ELSE merge(merge_entry(variables, Head(order), from[Head(order)]),
               from, Tail(order))

get_keys(variables) == DOMAIN variables

count(variables) == Cardinality(DOMAIN variables)

get(variables, key) ==
    IF key \in DOMAIN variables THEN Some(variables[key]) ELSE None

\* The orders in which a map's iterator can yield its keys.
IterationOrders(variables) ==
    {order \in [1..Cardinality(DOMAIN variables) -> DOMAIN variables] :
        Range(order) = DOMAIN variables}

(***************************************************************************)
(* MessageVariablesVisitor.  global_intern_string is fallible: the         *)
(* failAt-th call of a pass returns Err (0: none does), and `?` returns    *)
(* from every enclosing visit_* at once.                                   *)
(***************************************************************************)
VisitStart(failAt) ==
    [ok |-> TRUE, calls |-> 0, failAt |-> failAt,
     variables |-> MessageVariables_new]

\* variables.add_instance(global_intern_string(name)?, kind, None)
intern_and_add(st, name, kind) ==
    IF ~st.ok THEN st
    ELSE IF st.calls + 1 = st.failAt
    THEN [st EXCEPT !.ok = FALSE, !.calls = @ + 1]
    ELSE [st EXCEPT !.calls = @ + 1,
                    !.variables = add_instance(@, name, kind, None)]

\* format!("h{}", heading.level())
heading_tag(level) == "h" \o ToString(level)

RECURSIVE visit_inline_children(_, _)
RECURSIVE visit_arms(_, _)

visit_icu(st, icu) ==
    IF ~st.ok THEN st
    ELSE CASE icu.kind = "IcuVariable" -> intern_and_add(st, icu.name, "Any")
           [] icu.kind = "IcuPlural" ->
                visit_arms(intern_and_add(st, icu.name, "Plural"), icu.arms)
           [] icu.kind = "IcuDate" -> intern_and_add(st, icu.name, "Date")
           [] icu.kind = "IcuTime" -> intern_and_add(st, icu.name, "Time")
           [] icu.kind = "IcuNumber" -> intern_and_add(st, icu.name, "Number")

\* The Link arm without the visit of its destination.
visit_link_destination_skipped(st, destination) == st

\* match link.destination() { Placeholder(icu) => visit_icu(..), _ => Ok(()) }
visit_link_destination(st, destination) ==
    IF ~st.ok THEN st
    ELSE IF destination.kind = "Placeholder" THEN visit_icu(st, destination.icu)
    ELSE st

visit_inline_content(st, element) ==
    IF ~st.ok THEN st
    ELSE CASE element.kind = "Text" -> st
           [] element.kind = "IcuPound" -> st
           [] element.kind = "Icu" -> visit_icu(st, element.icu)
           [] element.kind = "Emphasis" ->
                visit_inline_children(
                    intern_and_add(st, "i", "HookFunction"), element.content)
           [] element.kind = "Strong" ->
                visit_inline_children(
                    intern_and_add(st, "b", "HookFunction"), element.content)
           [] element.kind = "Strikethrough" ->
                visit_inline_children(
                    intern_and_add(st, "del", "HookFunction"), element.content)
           [] element.kind = "HardLineBreak" ->
                intern_and_add(st, "br", "HookFunction")
           [] element.kind = "CodeSpan" ->
                intern_and_add(st, "code", "HookFunction")
           [] element.kind = "Hook" ->
                visit_inline_children(
                    intern_and_add(st, element.name, "HookFunction"),
                    element.content)
           [] element.kind = "Link" ->
                visit_link_destination(
                    visit_inline_children(
                        intern_and_add(st, "link", "LinkFunction"),
                        element.label),
                    element.destination)

visit_inline_children(st, content) ==
    IF ~st.ok \/ content = <<>> THEN st
    ELSE visit_inline_children(visit_inline_content(st, Head(content)),
                               Tail(content))

\* for arm in plural.arms() { visit_inline_children(arm.content(), ..)?; }
visit_arms(st, arms) ==
    IF ~st.ok \/ arms = <<>> THEN st
    ELSE visit_arms(visit_inline_children(st, Head(arms).content), Tail(arms))

visit_block(st, block_node) ==
    IF ~st.ok THEN st
    ELSE CASE block_node.kind = "InlineContent" ->
                visit_inline_children(st, block_node.content)
           [] block_node.kind = "Paragraph" ->
                visit_inline_children(
                    intern_and_add(st, "p", "HookFunction"), block_node.content)
           [] block_node.kind = "Heading" ->
                visit_inline_children(
                    intern_and_add(st, heading_tag(block_node.level),
                                   "HookFunction"),
                    block_node.content)
           [] block_node.kind = "CodeBlock" ->
                intern_and_add(st, "codeBlock", "HookFunction")
           [] block_node.kind = "ThematicBreak" ->
                intern_and_add(st, "hr", "HookFunction")

RECURSIVE visit_blocks(_, _)
visit_blocks(st, ast_blocks) ==
    IF ~st.ok \/ ast_blocks = <<>> THEN st
    ELSE visit_blocks(visit_block(st, Head(ast_blocks)), Tail(ast_blocks))

\* MessageVariablesVisitor::visit(ast, &mut variables): Ok(()) or Err, and
\* the catalog as the pass left it.
visit(ast, failAt) ==
    LET st == visit_blocks(VisitStart(failAt), ast)
    IN  [called |-> TRUE, failAt |-> failAt, ok |-> st.ok,
         calls |-> st.calls, variables |-> st.variables]


(***************************************************************************)
(* MessageValue (value.rs).                                                *)
(***************************************************************************)
\* from_raw publishing the catalog as the pass left it, whatever it returned.
visit_outcome_ignoring_error(result) == Some(result.variables)

\* match MessageVariablesVisitor::visit(..) { Ok(_) => Some(variables), _ => None }
visit_outcome(result) ==
    IF result.ok THEN Some(result.variables) ELSE None

\* The body of from_raw once `document` is parse_intl_message(content, ..).
from_raw_parsed(content, document, failAt) ==
    [raw           |-> content,
     parsed        |-> document,
     variables     |-> visit_outcome(visit(document, failAt)),
     file_position |-> None]

\* The raw texts of spec section 8 with the documents they parse to.
RawTexts ==
    {"**bold**", "{count, plural, one {1 item} other {# items}}", "{n}"}

parse_intl_message(content) ==
    CASE content = "**bold**" ->
           <<Paragraph(<<Strong(<<Text("bold")>>)>>)>>
      [] content = "{count, plural, one {1 item} other {# items}}" ->
           <<InlineContentBlock(<<Icu(IcuPlural("count",
               <<IcuPluralArm("one", <<Text("1 item")>>),
                 IcuPluralArm("other", <<IcuPound, Text(" items")>>)>>))>>)>>
      [] OTHER ->
           <<InlineContentBlock(<<Icu(IcuVariable("n"))>>)>>

from_raw(content, failAt) ==
    from_raw_parsed(content, parse_intl_message(content), failAt)

with_file_position(v, position) ==
    [v EXCEPT !.file_position = Some(position)]

\* Equality comparing the file position as well.
eq_with_file_position(a, b) ==
    a.raw = b.raw /\ a.file_position = b.file_position

\* impl PartialEq for MessageValue: self.raw == other.raw
eq(a, b) == a.raw = b.raw

\* FilePosition values.
FilePositions == {1, 2}

\* The interning calls of a pass over `document` when none fails.
InternCalls(document) == visit(document, 0).calls

IdleVisited ==
    [called |-> FALSE, failAt |-> 0, ok |-> TRUE, calls |-> 0,
     variables |-> MessageVariables_new]

NoValue ==
    [raw |-> "", parsed |-> <<>>, variables |-> None, file_position |-> None]

\* MessageValue::from_raw(content), the blocks built so far being the parse
\* of content; any one interning call of the pass may fail.
FromRawParsed ==
    /\ Building
    /\ elements = <<>>
    /\ \E failAt \in 0..InternCalls(blocks) :
         /\ visited' = visit(blocks, failAt)
         /\ value' = from_raw_parsed("raw", blocks, failAt)
    /\ UNCHANGED <<lookup, unesc, href, elements, blocks, plain,
                   valA, valB, eqResult, self, other, merged, body, hashed, hist,
                   body, hashed, hist>>

\* valA = MessageValue::from_raw(content)
FromRawA ==
    /\ \E content \in RawTexts :
         \E failAt \in 0..InternCalls(parse_intl_message(content)) :
            valA' = from_raw(content, failAt)
    /\ UNCHANGED <<lookup, unesc, href, elements, blocks, plain, visited,
                   value, valB, eqResult, self, other, merged,
                   body, hashed, hist>>

\* valB = MessageValue::from_raw(content)
FromRawB ==
    /\ \E content \in RawTexts :
         \E failAt \in 0..InternCalls(parse_intl_message(content)) :
            valB' = from_raw(content, failAt)
    /\ UNCHANGED <<lookup, unesc, href, elements, blocks, plain, visited,
                   value, valA, eqResult, self, other, merged,
                   body, hashed, hist>>

\* valB = valB.with_file_position(position)
WithFilePosition ==
    /\ valB # NoValue
    /\ \E position \in FilePositions :
         valB' = with_file_position(valB, position)
    /\ UNCHANGED <<lookup, unesc, href, elements, blocks, plain, visited,
                   value, valA, eqResult, self, other, merged,
                   body, hashed, hist>>

IdleEq == [called |-> FALSE, a |-> NoValue, b |-> NoValue, result |-> FALSE]

\* valA == valB
Eq ==
    /\ valA # NoValue
    /\ valB # NoValue
    /\ eqResult' = [called |-> TRUE, a |-> valA, b |-> valB,
                    result |-> eq(valA, valB)]
    /\ UNCHANGED <<lookup, unesc, href, elements, blocks, plain, visited,
                   value, valA, valB, self, other, merged,
                   body, hashed, hist>>

(***************************************************************************)
(* Catalog operations.                                                     *)
(***************************************************************************)
MaxInstances == 3
MaxMerges == 2

CatalogNames == {"a", "b"}
CatalogKinds == {"Any", "HookFunction"}

RECURSIVE SumLen(_, _)
SumLen(variables, keys) ==
    IF keys = {} THEN 0
    ELSE LET k == CHOOSE x \in keys : TRUE
         IN  Len(variables[k]) + SumLen(variables, keys \ {k})

\* The number of instances of a catalog.
Instances(variables) == SumLen(variables, DOMAIN variables)

IdleMerged ==
    [times |-> 0, base |-> MessageVariables_new, arg |-> MessageVariables_new]

\* No add_instance call is the last operation.
NoLastAdd ==
    [called |-> FALSE, target |-> "", name |-> "", kind |-> "",
     before |-> MessageVariables_new]

\* The record of the operations since both catalogs were new: the
\* add_instance calls on each, the instances merge copied into self, the
\* names given to each (by add_instance or by a merge), and the last
\* operation when it was an add_instance.
IdleHist ==
    [selfAdds |-> 0, otherAdds |-> 0, copied |-> 0,
     selfNames |-> {}, otherNames |-> {}, last |-> NoLastAdd]

\* self.add_instance(name, kind, None)
AddInstanceSelf ==
    /\ Instances(self) + Instances(other) < MaxInstances
    /\ \E name \in CatalogNames, kind \in CatalogKinds :
         /\ self' = add_instance(self, name, kind, None)
         /\ hist' = [hist EXCEPT
                       !.selfAdds = @ + 1,
                       !.selfNames = @ \cup {name},
                       !.last = [called |-> TRUE, target |-> "self",
                                 name |-> name, kind |-> kind,
                                 before |-> self]]
    /\ merged' = IdleMerged
    /\ UNCHANGED <<lookup, unesc, href, elements, blocks, plain, visited,
                   value, valA, valB, eqResult, other,
                   body, hashed>>

\* other.add_instance(name, kind, None)
AddInstanceOther ==
    /\ Instances(self) + Instances(other) < MaxInstances
    /\ \E name \in CatalogNames, kind \in CatalogKinds :
         /\ other' = add_instance(other, name, kind, None)
         /\ hist' = [hist EXCEPT
                       !.otherAdds = @ + 1,
                       !.otherNames = @ \cup {name},
                       !.last = [called |-> TRUE, target |-> "other",
                                 name |-> name, kind |-> kind,
                                 before |-> other]]
    /\ merged' = IdleMerged
    /\ UNCHANGED <<lookup, unesc, href, elements, blocks, plain, visited,
                   value, valA, valB, eqResult, self,
                   body, hashed>>

\* self.merge(&other); `merged` remembers self before the first of a run of
\* merges of the same `other`.
Merge ==
    /\ merged.times < MaxMerges
    /\ \E order \in IterationOrders(other) :
         self' = merge(self, other, order)
    /\ merged' = [times |-> merged.times + 1,
                  base  |-> IF merged.times = 0 THEN self ELSE merged.base,
                  arg   |-> other]
    /\ hist' = [hist EXCEPT
                  !.copied = @ + hist.otherAdds,
                  !.selfNames = @ \cup hist.otherNames,
                  !.last = NoLastAdd]
    /\ UNCHANGED <<lookup, unesc, href, elements, blocks, plain, visited,
                   value, valA, valB, eqResult, other,
                   body, hashed>>

(***************************************************************************)
(* escape_body_text (ast/util.rs).  A text is the sequence of its chars.   *)
(***************************************************************************)
\* "&lt;", "&gt;", "&quot;"
LT_ENTITY   == <<38, 108, 116, 59>>
GT_ENTITY   == <<38, 103, 116, 59>>
QUOT_ENTITY == <<38, 113, 117, 111, 116, 59>>

\* The match with the commented-out arm '\'' => Some("&#39;") enabled.
get_special_entity_replacement_with_apostrophe(c) ==
    CASE c = 60 -> Some(LT_ENTITY)
      [] c = 62 -> Some(GT_ENTITY)
      [] c = 34 -> Some(QUOT_ENTITY)
      [] c = 39 -> Some(<<38, 35, 51, 57, 59>>)
      [] c = 38 -> Some(AMP_ENTITY)
      [] OTHER  -> None

get_special_entity_replacement(c) ==
    CASE c = 60 -> Some(LT_ENTITY)
      [] c = 62 -> Some(GT_ENTITY)
      [] c = 34 -> Some(QUOT_ENTITY)
      [] c = 38 -> Some(AMP_ENTITY)
      [] OTHER  -> None

\* for c in text.chars() { match .. { Some(entity) => push_str, _ => push(c) } }
RECURSIVE replace_special_entities(_)
replace_special_entities(text) ==
    IF text = <<>> THEN <<>>
    ELSE LET entity == get_special_entity_replacement(Head(text))
         IN  (IF entity.some THEN entity.v ELSE <<Head(text)>>)
               \o replace_special_entities(Tail(text))

escape_body_text(text) == replace_special_entities(text)

MaxBodyLen == 3

\* '<', '>', '"', '&', apostrophe, 'b'
BodyChars == {60, 62, 34, 38, 39, 98}

BodyTexts == SeqsUpTo(BodyChars, MaxBodyLen)

IdleBody == [called |-> FALSE, text |-> <<>>, out |-> <<>>]

\* escape_body_text(text)
EscapeBodyText ==
    /\ \E text \in BodyTexts :
         body' = [called |-> TRUE, text |-> text, out |-> escape_body_text(text)]
    /\ UNCHANGED <<lookup, unesc, href, elements, blocks, plain, visited,
                   value, valA, valB, eqResult, self, other, merged,
                   hashed, hist>>

(***************************************************************************)
(* hash_message_key (intl_message_utils/src/lib.rs).  xxh64 is an external *)
(* crate: the hash is any 64-bit value, given as the 8 bytes of            *)
(* hash.to_ne_bytes().                                                     *)
(***************************************************************************)
\* "ABCDEFGHIJKLMNOPQRSTUVWXYZabcdefghijklmnopqrstuvwxyz0123456789+/"
BASE64_TABLE ==
    [i \in 1..64 |->
        IF i <= 26 THEN 64 + i
        ELSE IF i <= 52 THEN 70 + i
        ELSE IF i <= 62 THEN i - 5
        ELSE IF i = 63 THEN 43 ELSE 47]

\* u8 operators: &, |, << (bits shifted out are lost), >>.
RECURSIVE bit_and(_, _)
bit_and(a, b) ==
    IF a = 0 \/ b = 0 THEN 0
    ELSE (a % 2) * (b % 2) + 2 * bit_and(a \div 2, b \div 2)

RECURSIVE bit_or(_, _)
bit_or(a, b) ==
    IF a = 0 THEN b
    ELSE IF b = 0 THEN a
    ELSE (IF a % 2 = 1 \/ b % 2 = 1 THEN 1 ELSE 0)
           + 2 * bit_or(a \div 2, b \div 2)

shl(a, n) == (a * 2 ^ n) % 256

shr(a, n) == a \div 2 ^ n

\* input[i], zero-based.
at(input, i) == input[i + 1]

\* The table indices of the `vec![..]` of hash_message_key, in order.
hash_message_key_indices(input) ==
    <<shr(at(input, 0), 2),
      bit_or(shl(bit_and(at(input, 0), 3), 4), shr(at(input, 1), 4)),
      bit_or(shl(bit_and(at(input, 1), 15), 2), shr(at(input, 2), 6)),
      bit_and(at(input, 2), 63),
      shr(at(input, 3), 2),
      bit_or(shl(bit_and(at(input, 3), 3), 4), shr(at(input, 3), 4))>>

hash_message_key(input) ==
    LET indices == hash_message_key_indices(input)
        got     == [i \in 1..Len(indices) |-> TableGet(BASE64_TABLE, indices[i])]
    IN  [called   |-> TRUE,
         input    |-> input,
         indices  |-> indices,
         panicked |-> \E i \in 1..Len(indices) : got[i].panicked,
         output   |-> [i \in 1..Len(indices) |-> got[i].v]]

\* Byte values of the bounded hashes: 0x00, 0xA5, 0xFF.
HashByteSamples == {0, 165, 255}

\* Hashes whose first five bytes are samples and whose last three are alike.
HashInputs ==
    {head \o <<t, t, t>> : head \in [1..5 -> HashByteSamples], t \in {0, 255}}

IdleHashed ==
    [called |-> FALSE, input |-> <<>>, indices |-> <<>>, panicked |-> FALSE,
     output |-> <<>>]

\* hash_message_key(content), xxh64(content) having the bytes `input`
HashMessageKey ==
    /\ \E input \in HashInputs : hashed' = hash_message_key(input)
    /\ UNCHANGED <<lookup, unesc, href, elements, blocks, plain, visited,
                   value, valA, valB, eqResult, self, other, merged,
                   body, hist>>

(***************************************************************************)
(* Specifications: the whole front end, and one per component.             *)
(***************************************************************************)
Init ==
    /\ lookup = IdleLookup
    /\ unesc = IdleUnesc
    /\ href = IdleHref
    /\ elements = <<>>
    /\ blocks = <<>>
    /\ plain = IdlePlain
    /\ visited = IdleVisited
    /\ value = NoValue
    /\ valA = NoValue
    /\ valB = NoValue
    /\ eqResult = IdleEq
    /\ self = MessageVariables_new
    /\ other = MessageVariables_new
    /\ merged = IdleMerged
    /\ body = IdleBody
    /\ hashed = IdleHashed
    /\ hist = IdleHist

NextBytes == ByteIsSignificant \/ CharLengthFromByte

NextUnescape == Unescape \/ UnescapeAgain

NextHref == EscapeHref

NextPlain == PushLeaf \/ WrapTail \/ AddArm \/ FormatPlainText

NextVisitor ==
    PushLeaf \/ WrapTail \/ AddArm \/ FinishBlock \/ PushBlock \/ FromRawParsed

NextValue == FromRawA \/ FromRawB \/ WithFilePosition \/ Eq

NextCatalog == AddInstanceSelf \/ AddInstanceOther \/ Merge

NextBody == EscapeBodyText

NextHash == HashMessageKey

Next ==
    \/ NextBytes
    \/ NextUnescape
    \/ NextHref
    \/ NextPlain
    \/ NextVisitor
    \/ NextValue
    \/ NextCatalog
    \/ NextBody
    \/ NextHash

Spec == Init /\ [][Next]_vars

SpecBytes == Init /\ [][NextBytes]_vars

SpecUnescape == Init /\ [][NextUnescape]_vars

SpecHref == Init /\ [][NextHref]_vars

SpecPlain == Init /\ [][NextPlain]_vars

SpecVisitor == Init /\ [][NextVisitor]_vars

SpecValue == Init /\ [][NextValue]_vars

SpecCatalog == Init /\ [][NextCatalog]_vars

SpecBody == Init /\ [][NextBody]_vars

SpecHash == Init /\ [][NextHash]_vars


(***************************************************************************)
(* The table of spec section 4.6, as data, and the occurrences of each of  *)
(* its rows in a document.                                                 *)
(***************************************************************************)
\* The (name, type) a node is recorded under; no pair for a node that adds
\* nothing.
TableRow(node) ==
    CASE node.kind = "Paragraph"     -> {<<"p", "HookFunction">>}
      [] node.kind = "Heading"       ->
           {<<<<"h1", "h2", "h3", "h4", "h5", "h6">>[node.level], "HookFunction">>}
      [] node.kind = "CodeBlock"     -> {<<"codeBlock", "HookFunction">>}
      [] node.kind = "ThematicBreak" -> {<<"hr", "HookFunction">>}
      [] node.kind = "Emphasis"      -> {<<"i", "HookFunction">>}
      [] node.kind = "Strong"        -> {<<"b", "HookFunction">>}
      [] node.kind = "Strikethrough" -> {<<"del", "HookFunction">>}
      [] node.kind = "HardLineBreak" -> {<<"br", "HookFunction">>}
      [] node.kind = "CodeSpan"      -> {<<"code", "HookFunction">>}
      [] node.kind = "Hook"          -> {<<node.name, "HookFunction">>}
      [] node.kind = "Link"          -> {<<"link", "LinkFunction">>}
      [] node.kind = "IcuVariable"   -> {<<node.name, "Any">>}
      [] node.kind = "IcuPlural"     -> {<<node.name, "Plural">>}
      [] node.kind = "IcuDate"       -> {<<node.name, "Date">>}
      [] node.kind = "IcuTime"       -> {<<node.name, "Time">>}
      [] node.kind = "IcuNumber"     -> {<<node.name, "Number">>}
      [] OTHER                       -> {}

RECURSIVE ArmContents(_)
ArmContents(arms) ==
    IF arms = <<>> THEN <<>> ELSE Head(arms).content \o ArmContents(Tail(arms))

\* The nodes directly below a node: its inline content, its label and ICU
\* destination, its arms' contents, the ICU node an Icu element holds.
Children(node) ==
    CASE node.kind \in {"Paragraph", "Heading", "InlineContent", "Emphasis",
                        "Strong", "Strikethrough", "Hook"} -> node.content
      [] node.kind = "Link" ->
           node.label \o (IF node.destination.kind = "Placeholder"
                          THEN <<node.destination.icu>> ELSE <<>>)
      [] node.kind = "Icu" -> <<node.icu>>
      [] node.kind = "IcuPlural" -> ArmContents(node.arms)
      [] OTHER -> <<>>

\* The rows of the nodes of a forest, one per node that has a row.
RECURSIVE Rows(_)
Rows(nodes) ==
    IF nodes = <<>> THEN <<>>
    ELSE LET row == TableRow(Head(nodes))
         IN  (IF row = {} THEN <<>> ELSE <<CHOOSE r \in row : TRUE>>)
               \o Rows(Children(Head(nodes)))
               \o Rows(Tail(nodes))

TableTypes ==
    {"Any", "Number", "Plural", "Date", "Time", "HookFunction", "LinkFunction"}

\* The number of instances of `kind` a catalog holds under `name`.
InstancesOf(variables, name, kind) ==
    IF name \in DOMAIN variables
    THEN Cardinality({i \in 1..Len(variables[name]) : variables[name][i].kind = kind})
    ELSE 0

\* The catalog holds one instance per occurrence of every row, and nothing
\* else.
CatalogOf(variables, document) ==
    LET rows == Rows(document)
        Occurrences(row) == Cardinality({i \in 1..Len(rows) : rows[i] = row})
    IN  /\ DOMAIN variables = {rows[i][1] : i \in 1..Len(rows)}
        /\ \A name \in DOMAIN variables :
             /\ \A kind \in TableTypes :
                  InstancesOf(variables, name, kind) = Occurrences(<<name, kind>>)
             /\ \A i \in 1..Len(variables[name]) :
                  /\ variables[name][i].kind \in TableTypes
                  /\ variables[name][i].span = None

\* C1: a visitor pass whose interning calls all succeed returns Ok and
\* leaves a catalog with exactly one instance per occurrence of each
\* construct of the document, under the name and type of the fixed table;
\* Text, IcuPound and a bare InlineContent block add nothing.
C1_VisitRecordsEveryOccurrence ==
    (visited.called /\ visited.failAt = 0) =>
        /\ visited.ok
        /\ CatalogOf(visited.variables, blocks)

\* A link whose label and ICU destination use the same variable: the name
\* holds two instances, beside the link's own.
C1_Witness ==
    /\ visited.called
    /\ visited.failAt = 0
    /\ blocks = <<Paragraph(<<Link(<<Icu(IcuVariable("n"))>>,
                                   DestinationPlaceholder(IcuVariable("n")))>>)>>
    /\ Len(visited.variables["n"]) = 2
    /\ Len(visited.variables["link"]) = 1

\* C2: from_raw sets raw and parsed whatever the pass returns; variables is
\* present exactly when no interning call failed, and is then the complete
\* catalog of the document; after a failure it is absent, also when
\* instances had been added before the failure.
C2_NoPartialCatalog ==
    visited.called =>
        /\ value.raw = "raw"
        /\ value.parsed = blocks
        /\ value.file_position = None
        /\ value.variables.some <=> visited.ok
        /\ visited.ok <=> visited.failAt = 0
        /\ value.variables.some => CatalogOf(value.variables.v, blocks)
        /\ ~visited.ok => value.variables = None

\* A pass that failed after it had added instances.
C2_Witness ==
    /\ visited.called
    /\ ~visited.ok
    /\ DOMAIN visited.variables # {}
    /\ value.variables = None
    /\ value.parsed # <<>>

\* C3: two MessageValue values are equal if and only if their raw strings
\* are equal, whatever their catalogs (present or absent) and file
\* positions.
C3_EqualityIsRawOnly ==
    eqResult.called =>
        (eqResult.result <=> eqResult.a.raw = eqResult.b.raw)

\* Equal values that differ in file position and in having a catalog.
C3_Witness ==
    /\ eqResult.called
    /\ eqResult.result
    /\ eqResult.a.file_position = None
    /\ eqResult.b.file_position # None
    /\ eqResult.a.variables.some
    /\ ~eqResult.b.variables.some

\* `instances` repeated n times.
RECURSIVE Repeated(_, _)
Repeated(instances, n) ==
    IF n = 0 THEN <<>> ELSE instances \o Repeated(instances, n - 1)

ListOf(variables, key) ==
    IF key \in DOMAIN variables THEN variables[key] ELSE <<>>

\* C4: after self.merge(other), every name of either catalog maps in self
\* to its old list followed by other's list, once per merge; no other name
\* is present; count() is the size of the union of the key sets; other is
\* unchanged. A second merge of the same catalog appends its instances
\* again.
C4_MergeAppends ==
    merged.times > 0 =>
        /\ merged.arg = other
        /\ get_keys(self) = DOMAIN merged.base \cup DOMAIN other
        /\ count(self) = Cardinality(DOMAIN merged.base \cup DOMAIN other)
        /\ \A k \in get_keys(self) :
             get(self, k) =
               Some(ListOf(merged.base, k)
                      \o Repeated(ListOf(other, k), merged.times))
        /\ Instances(self) =
             Instances(merged.base) + merged.times * Instances(other)

\* Two merges of a catalog that shares one name with self and brings another.
C4_Witness ==
    /\ merged.times = 2
    /\ DOMAIN other \cap DOMAIN merged.base # {}
    /\ DOMAIN other \ DOMAIN merged.base # {}
    /\ Instances(self) > Instances(merged.base) + Instances(other)

\* The single pass as documented: an escaping backslash is dropped and the
\* byte after it kept without being examined; a carriage return is dropped.
RECURSIVE UnescapedOnce(_)
UnescapedOnce(text) ==
    IF text = <<>> THEN <<>>
    ELSE IF Head(text) = 92 /\ Len(text) > 1 /\ is_ascii_punctuation(text[2])
    THEN <<text[2]>> \o UnescapedOnce(SubSeq(text, 3, Len(text)))
    ELSE IF Head(text) = 13 THEN UnescapedOnce(Tail(text))
    ELSE <<Head(text)>> \o UnescapedOnce(Tail(text))

\* C5: unescape is one left-to-right pass: a backslash followed by an ASCII
\* punctuation byte is dropped and that byte kept and not re-examined,
\* every carriage return is dropped, every other byte passes through in
\* order; backslash, backslash, bang yields backslash, bang, which a second
\* pass turns into bang.
C5_UnescapeSinglePass ==
    /\ unesc.passes > 0 => unesc.out = UnescapedOnce(unesc.prev)
    /\ (unesc.passes > 0 /\ unesc.prev = <<92, 92, 33>>) => unesc.out = <<92, 33>>
    /\ (unesc.passes = 2 /\ unesc.text = <<92, 92, 33>>) => unesc.out = <<33>>

\* A second pass that changes the result of the first.
C5_Witness ==
    /\ unesc.passes = 2
    /\ unesc.text = <<92, 92, 33>>
    /\ unesc.prev = <<92, 33>>
    /\ unesc.out # unesc.prev

\* '%' and two uppercase hexadecimal digits for each byte.
RECURSIVE PercentXX(_)
PercentXX(bytes) ==
    IF bytes = <<>> THEN <<>>
    ELSE <<37, hex_digit(Head(bytes) \div 16), hex_digit(Head(bytes) % 16)>>
           \o PercentXX(Tail(bytes))

RECURSIVE HrefEncoded(_)
HrefEncoded(text) ==
    IF text = <<>> THEN <<>>
    ELSE LET c == Head(text)
         IN  (IF c = 38 THEN AMP_ENTITY
              ELSE IF ~is_ascii(c) \/ HREF_SAFE[c + 1] = 0
              THEN PercentXX(utf8_bytes(c))
              ELSE <<c>>)
               \o HrefEncoded(Tail(text))

\* C6: escape_href writes '&' as &amp;, every byte of every other char that
\* is non-ASCII or not href-safe as '%' and exactly two uppercase
\* hexadecimal digits, and every other char unchanged, in order.
C6_PercentEncodesEveryByteAsTwoDigits ==
    href.called => href.out = HrefEncoded(href.text)

\* ASCII letters and digits.
AsciiAlphanumeric == (48..57) \cup (65..90) \cup (97..122)

\* - _ . + ! * ' ( ) , : ; = ? @ ~ # $ % /  (the documented set less '&')
DocumentedSafePunctuation ==
    {45, 95, 46, 43, 33, 42, 39, 40, 41, 44, 58, 59, 61, 63, 64, 126,
     35, 36, 37, 47}

\* C7: the ASCII chars escape_href leaves unchanged are exactly the letters,
\* the digits and the documented punctuation other than '&'; a text of
\* letters, digits and - _ . ~ is returned as it is.
C7_SafeCharsAreTheDocumentedSet ==
    href.called =>
        /\ (Len(href.text) = 1 /\ is_ascii(href.text[1])) =>
             (href.out = href.text
                <=> href.text[1] \in AsciiAlphanumeric \cup DocumentedSafePunctuation)
        /\ Range(href.text) \subseteq AsciiAlphanumeric \cup {45, 95, 46, 126} =>
             href.out = href.text


\* What a node itself contributes to the plain text.
VisibleText(node) ==
    CASE node.kind \in {"Text", "CodeSpan"} -> <<node.text>>
      [] node.kind = "IcuPound" -> <<"#">>
      [] OTHER -> <<>>

\* The inline sequence whose text a node contributes: its content, or a
\* link's label (never its destination).
FlattenedContent(node) ==
    CASE node.kind \in {"Strong", "Emphasis", "Strikethrough", "Hook"} ->
           node.content
      [] node.kind = "Link" -> node.label
      [] OTHER -> <<>>

RECURSIVE Flattened(_)
Flattened(nodes) ==
    IF nodes = <<>> THEN <<>>
    ELSE VisibleText(Head(nodes))
           \o Flattened(FlattenedContent(Head(nodes)))
           \o Flattened(Tail(nodes))

\* An Icu node lies in the flattened content, at any depth.
RECURSIVE ReachesIcu(_)
ReachesIcu(nodes) ==
    /\ nodes # <<>>
    /\ \/ Head(nodes).kind = "Icu"
       \/ ReachesIcu(FlattenedContent(Head(nodes)))
       \/ ReachesIcu(Tail(nodes))

\* C8: format_plain_text returns, in order, the text of Text and CodeSpan
\* nodes, '#' for IcuPound, nothing for HardLineBreak, and the flattened
\* content of Strong, Emphasis, Strikethrough, Hook and of a Link's label
\* (nothing for its destination); when an Icu node lies anywhere in the
\* flattened content the call signals the unimplemented condition and
\* returns no string.
C8_PlainTextOrUnimplemented ==
    plain.called =>
        IF ReachesIcu(elements)
        THEN plain.panicked /\ plain.buffer = <<>>
        ELSE ~plain.panicked /\ plain.buffer = Flattened(elements)

\* Text followed by an Icu node nested in a Strong: no string is returned.
C8_Witness ==
    /\ plain.called
    /\ plain.panicked
    /\ elements = <<Text("a"), Strong(<<Icu(IcuVariable("n"))>>)>>

\* tab, newline, form feed, carriage return, space, " $ & ' ( ) * : < > [ \ ]
\* _ ` { } ~
DocumentedSignificantBytes ==
    {9, 10, 12, 13, 32, 34, 36, 38, 39, 40, 41, 42, 58, 60, 62, 91, 92, 93,
     95, 96, 123, 125, 126}

\* C9 as stated: byte_is_significant(b) is true for exactly the documented
\* set, and the lookup stays inside the table.
C9_SignificantExactlyDocumentedSet ==
    lookup.op = "byte_is_significant" =>
        /\ ~lookup.panicked
        /\ lookup.significant <=> lookup.byte \in DocumentedSignificantBytes

\* C9 amended: byte_is_significant(b) is true for exactly the documented
\* set and '!' (0x21), false for each of the other bytes 0..255 (every byte
\* >= 0x80 among them), and the lookup stays inside the 256-entry table.
C9_SignificantDocumentedSetAndBang ==
    lookup.op = "byte_is_significant" =>
        /\ ~lookup.panicked
        /\ lookup.index = lookup.byte
        /\ lookup.index < Len(TOKEN_SIGNIFICANT_BYTES)
        /\ lookup.significant
             <=> lookup.byte \in DocumentedSignificantBytes \cup {33}
        /\ lookup.byte >= 128 => ~lookup.significant

\* '!' is significant.
C9_Witness ==
    /\ lookup.op = "byte_is_significant"
    /\ lookup.byte = 33
    /\ lookup.significant

\* C10: char_length_from_byte(b) is 1 for an ASCII byte, 0 for a
\* continuation byte, 2, 3, 4 for the lead byte of a two-, three-, four-byte
\* sequence; it is in 1..4 for every byte that can start a sequence, and
\* the index b >> 3 is inside the 32-entry table.
C10_CharLengthFromLeadByte ==
    lookup.op = "char_length_from_byte" =>
        /\ ~lookup.panicked
        /\ Len(UTF8_LENGTH_LOOKUP) = 32
        /\ lookup.index < 32
        /\ lookup.byte \in 0..127 => lookup.length = 1
        /\ lookup.byte \in 128..191 => lookup.length = 0
        /\ lookup.byte \in 192..223 => lookup.length = 2
        /\ lookup.byte \in 224..239 => lookup.length = 3
        /\ lookup.byte \in 240..247 => lookup.length = 4
        /\ lookup.byte \in (0..127) \cup (192..247) => lookup.length \in 1..4

\* The lead byte of a four-byte sequence.
C10_Witness ==
    /\ lookup.op = "char_length_from_byte"
    /\ lookup.byte = 240
    /\ lookup.index = 30
    /\ lookup.length = 4


\* The entities escape_body_text writes.
BodyEntities == {LT_ENTITY, GT_ENTITY, QUOT_ENTITY, AMP_ENTITY}

\* The text with each of < > " & replaced by its entity, char by char.
RECURSIVE BodyEscaped(_)
BodyEscaped(text) ==
    IF text = <<>> THEN <<>>
    ELSE (CASE Head(text) = 60 -> LT_ENTITY
            [] Head(text) = 62 -> GT_ENTITY
            [] Head(text) = 34 -> QUOT_ENTITY
            [] Head(text) = 38 -> AMP_ENTITY
            [] OTHER -> <<Head(text)>>)
           \o BodyEscaped(Tail(text))

\* C11: escape_body_text replaces each '<', '>', '"' and '&' by &lt;, &gt;,
\* &quot; and &amp; and copies every other char, the apostrophe among them,
\* unchanged and in order; the output holds no '<', '>' or '"', and every
\* '&' of the output starts one of those four entities.
C11_BodyTextEntities ==
    body.called =>
        /\ body.out = BodyEscaped(body.text)
        /\ Range(body.out) \cap {60, 62, 34} = {}
        /\ \A i \in 1..Len(body.out) :
             body.out[i] = 38 =>
               \E entity \in BodyEntities :
                  /\ i + Len(entity) - 1 <= Len(body.out)
                  /\ SubSeq(body.out, i, i + Len(entity) - 1) = entity
        /\ Cardinality({i \in 1..Len(body.out) : body.out[i] = 39})
             = Cardinality({i \in 1..Len(body.text) : body.text[i] = 39})

\* An apostrophe kept between two replaced chars.
C11_Witness ==
    /\ body.called
    /\ body.text = <<60, 39, 38>>
    /\ body.out = LT_ENTITY \o <<39>> \o AMP_ENTITY


\* Bit k of a byte sequence, the most significant bit of the first byte
\* being bit 0.
BitOf(bytes, k) == (bytes[(k \div 8) + 1] \div 2 ^ (7 - (k % 8))) % 2

\* The value of bits 6i..6i+5 of a byte sequence: the i-th base64 digit.
Sextet(bytes, i) ==
    32 * BitOf(bytes, 6 * i) + 16 * BitOf(bytes, 6 * i + 1)
      + 8 * BitOf(bytes, 6 * i + 2) + 4 * BitOf(bytes, 6 * i + 3)
      + 2 * BitOf(bytes, 6 * i + 4) + BitOf(bytes, 6 * i + 5)

\* C12: hash_message_key returns exactly 6 chars, the first 6 chars of the
\* standard base64 encoding of the hash's bytes: char i encodes bits
\* 6i..6i+5 (the 6th the low 2 bits of byte 3 and the high 4 bits of byte
\* 4), with every table index in 0..63, so that hashes differing in any of
\* the first 36 bits get different keys.
C12_KeyIsBase64Prefix ==
    hashed.called =>
        /\ ~hashed.panicked
        /\ Len(hashed.output) = 6
        /\ \A i \in 1..6 :
             /\ hashed.indices[i] \in 0..63
             /\ hashed.indices[i] = Sextet(hashed.input, i - 1)
             /\ hashed.output[i] = BASE64_TABLE[Sextet(hashed.input, i - 1) + 1]


\* C13: from MessageVariables::new(), after any add_instance and merge
\* calls, every key of a catalog maps to a non-empty list, count() is the
\* number of distinct names given to it, its instances number the
\* add_instance calls on it plus the instances merges copied in, and
\* add_instance appends one instance at the end of its name's list and
\* leaves every other key's list as it was.
C13_CatalogInvariant ==
    /\ \A k \in get_keys(self) : Len(self[k]) > 0
    /\ \A k \in get_keys(other) : Len(other[k]) > 0
    /\ get_keys(self) = hist.selfNames
    /\ get_keys(other) = hist.otherNames
    /\ count(self) = Cardinality(hist.selfNames)
    /\ count(other) = Cardinality(hist.otherNames)
    /\ Instances(self) = hist.selfAdds + hist.copied
    /\ Instances(other) = hist.otherAdds
    /\ hist.last.called =>
         LET catalog == IF hist.last.target = "self" THEN self ELSE other
             before  == hist.last.before
             name    == hist.last.name
         IN  /\ get_keys(catalog) = get_keys(before) \cup {name}
             /\ catalog[name] =
                  Append(ListOf(before, name),
                         MessageVariableInstance(hist.last.kind, None))
             /\ \A k \in get_keys(before) \ {name} : catalog[k] = before[k]

\* add_instance on a name that a merge brought into self.
C13_Witness ==
    /\ hist.last.called
    /\ hist.last.target = "self"
    /\ hist.copied > 0
    /\ hist.selfAdds = 1
    /\ Len(self[hist.last.name]) = 2


====
